---- MODULE Spec2Model ----
(***************************************************************************)
(* A model of lunasvg's Canvas (canvas.cpp): the three creation forms, the *)
(* paint-source setters, fill, stroke, blend, mask, luminance and the      *)
(* FreeType text path.  A surface is a byte buffer addressed exactly as    *)
(* the code addresses it (row stride, four bytes per pixel, the 32-bit     *)
(* word 0xAARRGGBB stored little-endian: byte 0 blue .. byte 3 alpha).     *)
(* Doubles are modelled as a binary floating-point format with a short     *)
(* mantissa, rounding to nearest-even as IEEE 754 does.                    *)
(***************************************************************************)
EXTENDS Integers, Sequences, FiniteSets, TLC

VARIABLES phase, surface, rect, translation, pluto, pre, orig, op, trace, configured

vars == <<phase, surface, rect, translation, pluto, pre, orig, op, trace, configured>>

(***************************************************************************)
(* Bounds of the model.                                                    *)
(***************************************************************************)
\* significant bits of a double's mantissa in the model (53 in the build)
MantBits == 3
\* a double is an integer multiple of 2^-FracBits (the smallest exponent)
FracBits == 4
\* largest double drawn as an input is MaxK * 2^-FracBits
MaxK == 48
\* the other axis of a box is drawn from |k| <= SmallK and from +-1.0
SmallK == 1
\* largest width and height of a surface over a caller's buffer
MaxDim == 2
\* operations per canvas after its creation
MaxOps == 3

(***************************************************************************)
(* Arithmetic helpers.                                                     *)
(***************************************************************************)
RECURSIVE Pow2(_)
Pow2(n) == IF n = 0 THEN 1 ELSE 2 * Pow2(n - 1)

Abs(k) == IF k < 0 THEN -k ELSE k

Byte == 0..255

\* a | b on unsigned chars (the operator of draw_bitmap)
RECURSIVE BitOr(_, _)
BitOr(a, b) ==
    IF a = 0 THEN b
    ELSE IF b = 0 THEN a
    ELSE (IF (a % 2 = 1) \/ (b % 2 = 1) THEN 1 ELSE 0) + 2 * BitOr(a \div 2, b \div 2)

(***************************************************************************)
(* double: k stands for the real k / Q.  A value is representable when its *)
(* magnitude has at most MantBits significant bits.                        *)
(***************************************************************************)
Q == Pow2(FracBits)

RECURSIVE UlpOf(_)
UlpOf(a) == IF a < Pow2(MantBits) THEN 1 ELSE 2 * UlpOf(a \div 2)

IsDouble(k) == Abs(k) % UlpOf(Abs(k)) = 0

\* round to nearest representable value, ties to even
RoundToDouble(k) ==
    LET a == Abs(k)
        u == UlpOf(a)
        q == a \div u
        r == a % u
        m == IF 2 * r < u THEN q
             ELSE IF 2 * r > u THEN q + 1
             ELSE IF q % 2 = 0 THEN q ELSE q + 1
    IN  IF k < 0 THEN -(m * u) ELSE m * u

\* x + width on doubles (canvas.cpp 37, 38)
DoubleAdd(a, b) == RoundToDouble(a + b)

\* static_cast<int>(floor(x)), static_cast<int>(ceil(x)), (int)round(x)
Floor(k) == k \div Q

Ceil(k) == -((-k) \div Q)

Round(k) == IF k >= 0 THEN (2 * k + Q) \div (2 * Q) ELSE -((2 * (-k) + Q) \div (2 * Q))

Doubles == {k \in (-MaxK)..MaxK : IsDouble(k)}

SmallDoubles == {k \in Doubles : Abs(k) <= SmallK \/ Abs(k) = Q}

(***************************************************************************)
(* plutovg values.                                                         *)
(***************************************************************************)
Matrix(a, b, c, d, e, f) == [m00 |-> a, m10 |-> b, m01 |-> c, m11 |-> d, m02 |-> e, m12 |-> f]

plutovg_matrix_init_identity == Matrix(1, 0, 0, 1, 0, 0)

plutovg_matrix_init_translate(x, y) == Matrix(1, 0, 0, 1, x, y)

\* a applied first, then b
plutovg_matrix_multiply(a, b) ==
    Matrix(a.m00 * b.m00 + a.m10 * b.m01,
           a.m00 * b.m10 + a.m10 * b.m11,
           a.m01 * b.m00 + a.m11 * b.m01,
           a.m01 * b.m10 + a.m11 * b.m11,
           a.m02 * b.m00 + a.m12 * b.m01 + b.m02,
           a.m02 * b.m10 + a.m12 * b.m11 + b.m12)

plutovg_rect_init(x, y, w, h) == [x |-> x, y |-> y, w |-> w, h |-> h]

\* a surface over the caller's bytes
plutovg_surface_create_for_data(data, width, height, stride) ==
    [width |-> width, height |-> height, stride |-> stride, data |-> data]

\* a new surface: rows of 4 * width bytes, all zero
plutovg_surface_create(width, height) ==
    [width |-> width, height |-> height, stride |-> 4 * width,
     data |-> [i \in 0..(4 * width * height - 1) |-> 0]]

SolidPaint(r, g, b, a) == [type |-> "color", r |-> r, g |-> g, b |-> b, a |-> a]

\* the state of a new drawing context: opaque black, identity, non-zero, src-over
plutovg_create ==
    [source |-> SolidPaint(0, 0, 0, 255), matrix |-> plutovg_matrix_init_identity,
     winding |-> "non_zero", operator |-> "src_over", opacity |-> 1,
     line |-> [width |-> 1, cap |-> "butt", join |-> "miter", miterlimit |-> 4, dash |-> <<>>]]

(***************************************************************************)
(* Pixels.  A pixel is its four bytes in memory order <<b, g, r, a>>; the  *)
(* uint32_t the code reads is a*2^24 + r*2^16 + g*2^8 + b.                 *)
(***************************************************************************)
PixelAt(data, off) == <<data[off], data[off + 1], data[off + 2], data[off + 3]>>

\* (pixel >> shift) & 0xFF for shift = 0, 8, 16, 24
ShiftMask(pixel, shift) == pixel[(shift \div 8) + 1]

\* the bytes of (v << shift) as a uint32_t, v a byte
ShiftLeft(v, shift) == [i \in 1..4 |-> IF i = (shift \div 8) + 1 THEN v ELSE 0]

\* byte offset of pixel (x, y) as luminance() and the accessors address it
PixelOffset(s, x, y) == s.stride * y + 4 * x

Pixels(s) == (0..(s.width - 1)) \X (0..(s.height - 1))

(***************************************************************************)
(* Canvas construction (canvas.cpp 25-61).                                 *)
(***************************************************************************)
CanvasData(data, width, height, stride) ==
    [surface |-> plutovg_surface_create_for_data(data, width, height, stride),
     pluto |-> plutovg_create,
     translation |-> plutovg_matrix_init_identity,
     rect |-> plutovg_rect_init(0, 0, width, height)]

\* a constructor that forgets to negate the origin
CanvasIntNoNegate(x, y, width, height) ==
    [surface |-> plutovg_surface_create(width, height),
     pluto |-> plutovg_create,
     translation |-> plutovg_matrix_init_translate(x, y),
     rect |-> plutovg_rect_init(x, y, width, height)]

CanvasInt(x, y, width, height) ==
    [surface |-> plutovg_surface_create(width, height),
     pluto |-> plutovg_create,
     translation |-> plutovg_matrix_init_translate(-x, -y),
     rect |-> plutovg_rect_init(x, y, width, height)]

\* a create without the test for a degenerate box
CreateBoxNoClamp(x, y, width, height) ==
    LET l == Floor(x)
        t == Floor(y)
        r == Ceil(DoubleAdd(x, width))
        b == Ceil(DoubleAdd(y, height))
    IN  CanvasInt(l, t, r - l, b - t)

CreateBox(x, y, width, height) ==
    IF width <= 0 \/ height <= 0
    THEN CanvasInt(0, 0, 1, 1)
    ELSE LET l == Floor(x)
             t == Floor(y)
             r == Ceil(DoubleAdd(x, width))
             b == Ceil(DoubleAdd(y, height))
         IN  CanvasInt(l, t, r - l, b - t)

Install(c, o) ==
    /\ phase = "new"
    /\ phase' = "live"
    /\ surface' = c.surface
    /\ rect' = c.rect
    /\ translation' = c.translation
    /\ pluto' = c.pluto
    /\ pre' = c.surface.data
    /\ orig' = c.surface.data
    /\ op' = o
    /\ trace' = <<>>
    /\ configured' = [type |-> "none"]

\* Canvas::create(double, double, double, double)
Create(x, y, width, height) ==
    Install(CreateBox(x, y, width, height),
            [name |-> "create", x |-> x, y |-> y, w |-> width, h |-> height])

\* Canvas::create(const Rect&)
CreateRect(box) ==
    Install(CreateBox(box.x, box.y, box.w, box.h),
            [name |-> "create", x |-> box.x, y |-> box.y, w |-> box.w, h |-> box.h])

\* Canvas::create(data, width, height, stride)
CreateForData(data, width, height, stride) ==
    Install(CanvasData(data, width, height, stride),
            [name |-> "create_for_data", width |-> width, height |-> height, stride |-> stride])

(***************************************************************************)
(* Canvas::luminance (canvas.cpp 305-323).                                 *)
(***************************************************************************)
\* two faulty conversions: the weights of red and green swapped; the value
\* kept in every channel
LumPixelSwapped(pixel) ==
    LET r == ShiftMask(pixel, 16)
        g == ShiftMask(pixel, 8)
        b == ShiftMask(pixel, 0)
        l == (3 * r + 2 * g + b) \div 6
    IN  ShiftLeft(l, 24)

LumPixelGray(pixel) ==
    LET r == ShiftMask(pixel, 16)
        g == ShiftMask(pixel, 8)
        b == ShiftMask(pixel, 0)
        l == (2 * r + 3 * g + b) \div 6
    IN  <<l, l, l, l>>

LumPixel(pixel) ==
    LET r == ShiftMask(pixel, 16)
        g == ShiftMask(pixel, 8)
        b == ShiftMask(pixel, 0)
        l == (2 * r + 3 * g + b) \div 6
    IN  ShiftLeft(l, 24)

LuminanceData(s) ==
    [off \in DOMAIN s.data |->
        LET y == off \div s.stride
            x == (off % s.stride) \div 4
        IN  IF x < s.width /\ y < s.height
            THEN LumPixel(PixelAt(s.data, PixelOffset(s, x, y)))[(off % 4) + 1]
            ELSE s.data[off]]

Step(name, o, data) ==
    /\ phase = "live"
    /\ pre' = surface.data
    /\ surface' = [surface EXCEPT !.data = data]
    /\ op' = o
    /\ trace' = Append(trace, name)
    /\ UNCHANGED <<phase, rect, translation, orig>>

luminance ==
    /\ Step("luminance", [name |-> "luminance"], LuminanceData(surface))
    /\ UNCHANGED <<pluto, configured>>

(***************************************************************************)
(* Adapter functions (canvas.cpp 350-418).                                 *)
(***************************************************************************)
to_plutovg_matrix(transform) ==
    Matrix(transform.m00, transform.m10, transform.m01, transform.m11, transform.m02, transform.m12)

to_plutovg_fill_rule(winding) == IF winding = "EvenOdd" THEN "even_odd" ELSE "non_zero"

to_plutovg_operator(mode) ==
    IF mode = "Src" THEN "src"
    ELSE IF mode = "Src_Over" THEN "src_over"
    ELSE IF mode = "Dst_In" THEN "dst_in"
    ELSE "dst_out"

to_plutovg_line_cap(cap) ==
    IF cap = "Butt" THEN "butt" ELSE IF cap = "Round" THEN "round" ELSE "square"

to_plutovg_line_join(join) ==
    IF join = "Miter" THEN "miter" ELSE IF join = "Round" THEN "round" ELSE "bevel"

to_plutovg_spread_method(spread) ==
    IF spread = "Pad" THEN "pad" ELSE IF spread = "Reflect" THEN "reflect" ELSE "repeat"

to_plutovg_texture_type(type) == IF type = "Plain" THEN "plain" ELSE "tiled"

\* each stop (offset, Color) is added in order
to_plutovg_stops(stops) ==
    [i \in 1..Len(stops) |->
        [offset |-> stops[i][1], r |-> stops[i][2].r, g |-> stops[i][2].g,
         b |-> stops[i][2].b, a |-> stops[i][2].a]]

\* a Path is a sequence of closed rectangular subpaths, replayed in order
to_plutovg_path(path) == path

(***************************************************************************)
(* The rasterizer: which pixels a path covers and how a source pixel is    *)
(* composed onto a destination pixel.  Paths are rectangles on integer     *)
(* coordinates, matrices are translations and scalings, and colours and    *)
(* opacities are fully transparent or fully opaque, so coverage and        *)
(* composition are exact.                                                  *)
(***************************************************************************)
plutovg_path_add_rect(x, y, w, h) == <<[x |-> x, y |-> y, w |-> w, h |-> h]>>

MapRect(m, r) ==
    [x |-> m.m00 * r.x + m.m02, y |-> m.m11 * r.y + m.m12, w |-> m.m00 * r.w, h |-> m.m11 * r.h]

plutovg_path_transform(path, m) == [i \in 1..Len(path) |-> MapRect(m, path[i])]

\* the pixel cell [px, px+1] x [py, py+1] lies in the rectangle
Covers(r, px, py) ==
    /\ r.x <= px
    /\ px + 1 <= r.x + r.w
    /\ r.y <= py
    /\ py + 1 <= r.y + r.h

WindingCount(path, m, px, py) ==
    Cardinality({i \in 1..Len(path) : Covers(MapRect(m, path[i]), px, py)})

InsideFill(path, m, winding, px, py) ==
    LET n == WindingCount(path, m, px, py)
    IN  IF winding = "even_odd" THEN n % 2 = 1 ELSE n # 0

\* the outline of a stroke of the given width along each rectangle, miter joins
InsideStroke(path, m, line, px, py) ==
    LET hw == line.width \div 2
    IN  \E i \in 1..Len(path) :
            LET r == MapRect(m, path[i])
                outer == [x |-> r.x - hw, y |-> r.y - hw, w |-> r.w + 2 * hw, h |-> r.h + 2 * hw]
                inner == [x |-> r.x + hw, y |-> r.y + hw, w |-> r.w - 2 * hw, h |-> r.h - 2 * hw]
            IN  Covers(outer, px, py) /\ ~Covers(inner, px, py)

Transparent == <<0, 0, 0, 0>>

Premultiplied(c) == IF c.a = 255 THEN <<c.b, c.g, c.r, 255>> ELSE Transparent

\* the source's pixel at device pixel (px, py) under matrix m
SourceAt(source, m, px, py) ==
    IF source.type = "color" THEN Premultiplied(source)
    ELSE IF source.type \in {"linear", "radial"} THEN Premultiplied(source.stops[1])
    ELSE LET s == source.surface
             tx == px - m.m02 - source.matrix.m02
             ty == py - m.m12 - source.matrix.m12
         IN  IF source.textype = "tiled"
             THEN PixelAt(s.data, PixelOffset(s, tx % s.width, ty % s.height))
             ELSE IF tx \in 0..(s.width - 1) /\ ty \in 0..(s.height - 1)
                  THEN PixelAt(s.data, PixelOffset(s, tx, ty))
                  ELSE Transparent

Composite(operator, opacity, s, d) ==
    LET src == IF opacity = 1 THEN s ELSE Transparent
    IN  IF operator = "src" THEN src
        ELSE IF operator = "src_over" THEN (IF src[4] = 255 THEN src ELSE d)
        ELSE IF operator = "dst_in" THEN (IF src[4] = 255 THEN d ELSE Transparent)
        ELSE (IF src[4] = 255 THEN Transparent ELSE d)

\* blend the state's source onto the covered pixels of the surface
Blend(s, st, covered(_, _)) ==
    [off \in DOMAIN s.data |->
        LET y == off \div s.stride
            x == (off % s.stride) \div 4
        IN  IF x < s.width /\ y < s.height /\ covered(x, y)
            THEN Composite(st.operator, st.opacity, SourceAt(st.source, st.matrix, x, y),
                           PixelAt(s.data, PixelOffset(s, x, y)))[(off % 4) + 1]
            ELSE s.data[off]]

plutovg_fill(s, st, path) ==
    LET covered(x, y) == InsideFill(path, st.matrix, st.winding, x, y)
    IN  Blend(s, st, covered)

plutovg_stroke(s, st, path) ==
    LET covered(x, y) == InsideStroke(path, st.matrix, st.line, x, y)
    IN  Blend(s, st, covered)

plutovg_paint(s, st) ==
    LET covered(x, y) == TRUE
    IN  Blend(s, st, covered)

(***************************************************************************)
(* Paint-source configuration (canvas.cpp 69-97).                          *)
(***************************************************************************)
\* a setter whose source never reaches the drawing context
ConfigureIgnored(name, source) ==
    /\ Step(name, [name |-> name], surface.data)
    /\ pluto' = pluto
    /\ configured' = source

Configure(name, source) ==
    /\ Step(name, [name |-> name], surface.data)
    /\ pluto' = [pluto EXCEPT !.source = source]
    /\ configured' = source

setColor(color) ==
    Configure("setColor", SolidPaint(color.r, color.g, color.b, color.a))

setLinearGradient(x1, y1, x2, y2, stops, spread, transform) ==
    Configure("setLinearGradient",
              [type |-> "linear", values |-> <<x1, y1, x2, y2>>,
               stops |-> to_plutovg_stops(stops),
               spread |-> to_plutovg_spread_method(spread),
               matrix |-> to_plutovg_matrix(transform)])

setRadialGradient(cx, cy, r, fx, fy, stops, spread, transform) ==
    Configure("setRadialGradient",
              [type |-> "radial", values |-> <<cx, cy, r, fx, fy, 0>>,
               stops |-> to_plutovg_stops(stops),
               spread |-> to_plutovg_spread_method(spread),
               matrix |-> to_plutovg_matrix(transform)])

setTexture(source, type, transform) ==
    Configure("setTexture",
              [type |-> "texture", surface |-> source.surface,
               textype |-> to_plutovg_texture_type(type),
               matrix |-> to_plutovg_matrix(transform)])

(***************************************************************************)
(* fill, stroke, blend, mask (canvas.cpp 99-152).                          *)
(***************************************************************************)
fill(path, transform, winding, mode, opacity) ==
    LET matrix == plutovg_matrix_multiply(to_plutovg_matrix(transform), translation)
        st == [pluto EXCEPT !.matrix = matrix,
                            !.winding = to_plutovg_fill_rule(winding),
                            !.opacity = opacity,
                            !.operator = to_plutovg_operator(mode)]
    IN  /\ Step("fill", [name |-> "fill", used |-> st.source],
                plutovg_fill(surface, st, to_plutovg_path(path)))
        /\ pluto' = st
        /\ UNCHANGED configured

stroke(path, transform, width, cap, join, miterlimit, dash, mode, opacity) ==
    LET matrix == plutovg_matrix_multiply(to_plutovg_matrix(transform), translation)
        st == [pluto EXCEPT !.matrix = matrix,
                            !.line = [width |-> width, cap |-> to_plutovg_line_cap(cap),
                                      join |-> to_plutovg_line_join(join),
                                      miterlimit |-> miterlimit, dash |-> dash],
                            !.operator = to_plutovg_operator(mode),
                            !.opacity = opacity]
    IN  /\ Step("stroke", [name |-> "stroke", used |-> st.source],
                plutovg_stroke(surface, st, to_plutovg_path(path)))
        /\ pluto' = st
        /\ UNCHANGED configured

blend(source, mode, opacity) ==
    LET st == [pluto EXCEPT !.source = [type |-> "texture", surface |-> source.surface,
                                        textype |-> "plain",
                                        matrix |-> plutovg_matrix_init_translate(source.rect.x, source.rect.y)],
                            !.operator = to_plutovg_operator(mode),
                            !.opacity = opacity,
                            !.matrix = translation]
    IN  /\ Step("blend", [name |-> "blend", used |-> st.source], plutovg_paint(surface, st))
        /\ pluto' = st
        /\ UNCHANGED configured

\* the fill rule of mask, and the rule that would fill the clip rectangle too
MaskFillRuleNonZero == "non_zero"

MaskFillRule == "even_odd"

MaskPath(clip, transform) ==
    LET matrix == to_plutovg_matrix(transform)
        path == plutovg_path_transform(plutovg_path_add_rect(clip.x, clip.y, clip.w, clip.h), matrix)
    IN  plutovg_path_add_rect(rect.x, rect.y, rect.w, rect.h) \o path

mask(clip, transform) ==
    LET st == [pluto EXCEPT !.source = SolidPaint(0, 0, 0, 0),
                            !.winding = MaskFillRule,
                            !.operator = "src",
                            !.opacity = 0,
                            !.matrix = translation]
    IN  /\ Step("mask", [name |-> "mask", clip |-> clip, transform |-> transform],
                plutovg_fill(surface, st, MaskPath(clip, transform)))
        /\ pluto' = st
        /\ UNCHANGED configured

(***************************************************************************)
(* Canvas::text (canvas.cpp 154-303).  The glyph engine is an input: for   *)
(* each code unit an advance (26.6 fixed point), a coverage bitmap and its *)
(* bearings; ft names the FreeType call that reports an error, if any.     *)
(***************************************************************************)
FONT_SIZE == 12

GlyphEngine ==
    [c \in {97, 98, 99} |->
        IF c = 97 THEN [advance |-> 100, rows |-> 1, width |-> 1, left |-> 0, top |-> 1,
                        buffer |-> <<128>>]
        ELSE IF c = 98 THEN [advance |-> 128, rows |-> 2, width |-> 2, left |-> 0, top |-> 2,
                             buffer |-> <<128, 0, 255, 64>>]
        ELSE [advance |-> 64, rows |-> 1, width |-> 2, left |-> 0, top |-> 1,
              buffer |-> <<64, 3>>]]

FT_Load_Char(c) == GlyphEngine[c]

\* std::wstring_convert::from_bytes on ASCII: one code unit per byte
from_bytes(txt) == [n \in 1..Len(txt) |-> txt[n]]

\* canvas[j][i] |= bitmap->buffer[q * bitmap->width + p] inside the buffer
draw_bitmap(canvas, width, height, bitmap, x, y) ==
    LET x_max == x + bitmap.width
        y_max == y + bitmap.rows
    IN  [c \in DOMAIN canvas |->
            LET j == c[1]
                i == c[2]
            IN  IF i >= x /\ i < x_max /\ j >= y /\ j < y_max
                   /\ ~(i < 0 \/ j < 0 \/ i >= width \/ j >= height)
                THEN BitOr(canvas[c], bitmap.buffer[(j - y) * bitmap.width + (i - x) + 1])
                ELSE canvas[c]]

RECURSIVE TotalWidth(_, _)
TotalWidth(w, n) ==
    IF n = 0 THEN 0 ELSE TotalWidth(w, n - 1) + (FT_Load_Char(w[n]).advance \div 64)

RECURSIVE MaxHeight(_, _)
MaxHeight(w, n) ==
    IF n = 0 THEN 0
    ELSE LET m == MaxHeight(w, n - 1)
             rows == FT_Load_Char(w[n]).rows
         IN  IF rows > m THEN rows ELSE m

\* the second loop, from glyph n on, with the pen at pen_x
RECURSIVE DrawGlyphs(_, _, _, _, _, _, _)
DrawGlyphs(canvas, width, height, w, n, pen_x, pen_y) ==
    IF n > Len(w) THEN canvas
    ELSE LET slot == FT_Load_Char(w[n])
         IN  DrawGlyphs(draw_bitmap(canvas, width, height, slot, pen_x + slot.left, pen_y - slot.top),
                        width, height, w, n + 1, pen_x + (slot.advance \div 64), pen_y)

TextCanvas(txt) ==
    LET w == from_bytes(txt)
        width_canvas == TotalWidth(w, Len(w))
        height_canvas == MaxHeight(w, Len(w))
        blank == [c \in (0..(height_canvas - 1)) \X (0..(width_canvas - 1)) |-> 0]
    IN  [cols |-> width_canvas, rows |-> height_canvas,
         cells |-> DrawGlyphs(blank, width_canvas, height_canvas, w, 1, 0, height_canvas)]

\* int index = ((i + round_y) * width + (j + round_x)) * 4
BlitIndex(s, cx, cy) == (cy * s.width + cx) * 4

\* cells of the coverage buffer that pass the test of the blit loop
BlitCells(s, tc, round_x, round_y) ==
    {c \in DOMAIN tc.cells :
        ~(tc.cells[c] = 0 \/ (c[1] + round_y) < 0 \/ (c[1] + round_y) >= s.height
          \/ (c[2] + round_x) < 0 \/ (c[2] + round_x) >= s.width)}

\* data[index + k] for k = 0..3
BlitValue(coverage, k) == IF k = 3 THEN 255 ELSE 255 - coverage

Blit(s, tc, round_x, round_y) ==
    LET cells == BlitCells(s, tc, round_x, round_y)
        index(c) == BlitIndex(s, c[2] + round_x, c[1] + round_y)
    IN  [off \in DOMAIN s.data |->
            IF \E c \in cells : off \in index(c)..(index(c) + 3)
            THEN LET c == CHOOSE c \in cells : off \in index(c)..(index(c) + 3)
                 IN  BlitValue(tc.cells[c], off - index(c))
            ELSE s.data[off]]

BlitWrites(s, tc, round_x, round_y) ==
    UNION {LET index == BlitIndex(s, c[2] + round_x, c[1] + round_y) IN index..(index + 3) :
           c \in BlitCells(s, tc, round_x, round_y)}

\* the FreeType call that fails first, given the text
Fails(ft, txt) ==
    \/ ft \in {"FT_Init_FreeType", "FT_New_Face", "FT_Set_Char_Size"}
    \/ ft = "FT_Load_Char" /\ Len(txt) > 0

text(x, y, txt, ft) ==
    LET round_x == Round(x)
        round_y == Round(y) - 12
        tc == TextCanvas(txt)
        o == [name |-> "text", x |-> x, y |-> y, text |-> txt, ft |-> ft]
    IN  IF Fails(ft, txt)
        THEN \* exit(1)
             /\ phase = "live"
             /\ phase' = "exited"
             /\ pre' = surface.data
             /\ op' = o @@ [failed |-> TRUE, tc |-> <<>>, writes |-> {}]
             /\ trace' = Append(trace, "text")
             /\ UNCHANGED <<surface, rect, translation, pluto, orig, configured>>
        ELSE /\ Step("text",
                     o @@ [failed |-> FALSE, tc |-> tc,
                           writes |-> BlitWrites(surface, tc, round_x, round_y)],
                     Blit(surface, tc, round_x, round_y))
             /\ UNCHANGED <<pluto, configured>>

(***************************************************************************)
(* Initial state: no canvas yet.                                           *)
(***************************************************************************)
NoSurface == plutovg_surface_create_for_data(<<>>, 0, 0, 0)

Init ==
    /\ phase = "new"
    /\ surface = NoSurface
    /\ rect = plutovg_rect_init(0, 0, 0, 0)
    /\ translation = plutovg_matrix_init_identity
    /\ pluto = plutovg_create
    /\ pre = <<>>
    /\ orig = <<>>
    /\ op = [name |-> "none"]
    /\ trace = <<>>
    /\ configured = [type |-> "none"]

(***************************************************************************)
(* Inputs.                                                                 *)
(***************************************************************************)
Color(r, g, b, a) == [r |-> r, g |-> g, b |-> b, a |-> a]

Transform(a, d, e, f) == [m00 |-> a, m10 |-> 0, m01 |-> 0, m11 |-> d, m02 |-> e, m12 |-> f]

Modes == {"Src", "Src_Over", "Dst_In", "Dst_Out"}

\* a caller's buffer: every pixel the same, row padding 0xAA
Buffer(p, width, height, stride) ==
    [i \in 0..(stride * height - 1) |-> IF i % stride < 4 * width THEN p[(i % 4) + 1] ELSE 170]

\* a caller's buffer whose pixels all differ: pixel (x, y) is <<x+1, y+1, 7, 255>>
PatternBuffer(width, height, stride) ==
    [i \in 0..(stride * height - 1) |->
        IF i % stride < 4 * width
        THEN <<((i % stride) \div 4) + 1, (i \div stride) + 1, 7, 255>>[(i % 4) + 1]
        ELSE 170]

\* another canvas, used as a texture or a blend source: one opaque pixel
SourceCanvas(x, y) ==
    LET c == CanvasInt(x, y, 1, 1)
    IN  [c EXCEPT !.surface.data = [i \in 0..3 |-> <<255, 0, 0, 255>>[i + 1]]]

Square(n) == plutovg_path_add_rect(0, 0, n, n)

(***************************************************************************)
(* Spec: a canvas of any creation form, then up to MaxOps operations.      *)
(***************************************************************************)
NextCanvas ==
    \/ /\ phase = "new"
       /\ \E w \in {-Q, Q + Q \div 2} : Create(-Q \div 2, 0, w, Q)
    \/ /\ phase = "new"
       /\ CreateRect([x |-> 0, y |-> Q, w |-> Q, h |-> Q])
    \/ /\ phase = "new"
       /\ \E width \in 1..MaxDim :
             CreateForData(Buffer(<<30, 20, 10, 128>>, width, MaxDim, 4 * width + 4),
                           width, MaxDim, 4 * width + 4)

Ready == phase = "live" /\ Len(trace) < MaxOps

NextPaint ==
    \/ Ready /\ \E c \in {Color(255, 0, 0, 255), Color(0, 0, 0, 0)} : setColor(c)
    \/ Ready /\ setLinearGradient(0, 0, 1, 0, <<<<0, Color(0, 0, 255, 255)>>>>, "Pad",
                                  Transform(1, 1, 0, 0))
    \/ Ready /\ setRadialGradient(0, 0, 1, 0, 0, <<<<0, Color(0, 255, 0, 255)>>>>, "Reflect",
                                  Transform(1, 1, 0, 0))
    \/ Ready /\ setTexture(SourceCanvas(0, 0), "Tiled", Transform(1, 1, 1, 0))

NextDraw ==
    \/ Ready /\ \E winding \in {"EvenOdd", "NonZero"} :
                   fill(Square(2) \o Square(1), Transform(1, 1, 0, 0), winding, "Src_Over", 1)
    \/ Ready /\ stroke(Square(2), Transform(1, 1, 1, 0), 2, "Butt", "Miter", 4, <<>>, "Dst_Out", 1)
    \/ Ready /\ \E mode \in Modes : blend(SourceCanvas(0, 0), mode, 1)
    \/ Ready /\ \E clip \in {plutovg_rect_init(0, 0, 1, 1), plutovg_rect_init(1, 0, 1, 2)} :
                   mask(clip, Transform(1, 1, 0, 0))
    \/ Ready /\ luminance
    \/ Ready /\ \E ft \in {"none", "FT_New_Face"} : text(0, FONT_SIZE * Q, <<98>>, ft)

Next == NextCanvas \/ NextPaint \/ NextDraw

Spec == Init /\ [][Next]_vars

(***************************************************************************)
(* Canvases of the narrower specifications: buffers with and without row   *)
(* padding, and bounding boxes.                                            *)
(***************************************************************************)
CreateAny(pixels) ==
    \/ /\ phase = "new"
       /\ \E width \in 1..MaxDim, height \in 1..MaxDim, pad \in {0, 4}, p \in pixels :
             CreateForData(Buffer(p, width, height, 4 * width + pad), width, height, 4 * width + pad)
    \/ /\ phase = "new"
       /\ \E width \in 1..MaxDim, height \in 1..MaxDim, pad \in {0, 4} :
             CreateForData(PatternBuffer(width, height, 4 * width + pad), width, height, 4 * width + pad)
    \/ /\ phase = "new"
       /\ \E x \in {-Q \div 2, Q}, w \in {-Q, Q, Q + Q \div 2} : Create(x, 0, w, Q + Q \div 2)

(***************************************************************************)
(* SpecText: up to MaxTextOps calls of text.                               *)
(***************************************************************************)
MaxTextOps == 1

Texts == {<<>>, <<97>>, <<98>>, <<99, 97>>}

FtErrors == {"none", "FT_Init_FreeType", "FT_New_Face", "FT_Set_Char_Size", "FT_Load_Char"}

NextText ==
    \/ CreateAny({<<0, 0, 255, 255>>})
    \/ /\ phase = "live"
       /\ Len(trace) < MaxTextOps
       /\ \E x \in {-Q \div 2, 0, Q \div 2}, y \in {FONT_SIZE * Q, (FONT_SIZE + 2) * Q},
             txt \in Texts, ft \in FtErrors :
             text(x, y, txt, ft)

SpecText == Init /\ [][NextText]_vars

(***************************************************************************)
(* SpecMask: fills with the context's initial paint and masks, up to       *)
(* MaxMaskOps operations.                                                  *)
(***************************************************************************)
MaxMaskOps == 2

Clips == {plutovg_rect_init(x, 0, w, h) : x \in {0, 1}, w \in {1, 2}, h \in {1, 2}}

Transforms == {Transform(1, 1, 0, 0), Transform(1, 1, 1, 0), Transform(2, 2, 0, 0)}

NextMask ==
    \/ CreateAny({<<0, 0, 255, 255>>})
    \/ /\ phase = "live"
       /\ Len(trace) < MaxMaskOps
       /\ \E t \in Transforms : fill(Square(2), t, "NonZero", "Src_Over", 1)
    \/ /\ phase = "live"
       /\ Len(trace) < MaxMaskOps
       /\ \E clip \in Clips, t \in Transforms : mask(clip, t)

SpecMask == Init /\ [][NextMask]_vars

(***************************************************************************)
(* SpecCreate: every bounding box the bounds allow.                        *)
(***************************************************************************)
NextCreate ==
    \/ /\ phase = "new"
       /\ \E x \in Doubles, y \in SmallDoubles, w \in Doubles, h \in SmallDoubles :
             Create(x, y, w, h)
    \/ /\ phase = "new"
       /\ \E x \in SmallDoubles, y \in Doubles, w \in SmallDoubles, h \in Doubles :
             CreateRect([x |-> x, y |-> y, w |-> w, h |-> h])

SpecCreate == Init /\ [][NextCreate]_vars

(***************************************************************************)
(* SpecLum: a two-row surface over a caller's buffer with row padding; the  *)
(* first pixel takes every gray level and a sample of colours.  Up to      *)
(* MaxOps calls of luminance.                                              *)
(***************************************************************************)
SampleBytes == {0, 1, 85, 128, 255}

LumPixels ==
    {<<l, l, l, 0>> : l \in Byte} \cup (SampleBytes \X SampleBytes \X SampleBytes \X {0, 255})

LumBuffer(p1, p2) ==
    [i \in 0..15 |->
        IF i < 4 THEN p1[i + 1]
        ELSE IF i \in 8..11 THEN p2[i - 7]
        ELSE 170]

NextLum ==
    \/ /\ phase = "new"
       /\ \E p1 \in LumPixels, p2 \in {<<0, 0, 255, 255>>, <<3, 2, 1, 0>>} :
             CreateForData(LumBuffer(p1, p2), 1, 2, 8)
    \/ Len(trace) < MaxOps /\ luminance

SpecLum == Init /\ [][NextLum]_vars

(***************************************************************************)
(* Properties.                                                             *)
(***************************************************************************)
Identity == Matrix(1, 0, 0, 1, 0, 0)

\* C1: luminance replaces every pixel, whatever its alpha byte, by the word
\* whose top byte is (2r + 3g + b) div 6 of the old pixel and whose other
\* three bytes are 0; row padding is not part of any pixel.
C1_LuminanceFormula ==
    op.name = "luminance" =>
        \A p \in Pixels(surface) :
            LET o == PixelOffset(surface, p[1], p[2])
            IN  /\ surface.data[o + 3] = (2 * pre[o + 2] + 3 * pre[o + 1] + pre[o]) \div 6
                /\ surface.data[o] = 0
                /\ surface.data[o + 1] = 0
                /\ surface.data[o + 2] = 0

\* opaque red (r = 255, g = 0, b = 0) has become top byte 85
C1_Witness ==
    /\ trace = <<"luminance">>
    /\ PixelAt(pre, 0) = <<0, 0, 255, 255>>
    /\ PixelAt(surface.data, 0) = <<0, 0, 0, 85>>

GrayLevel(L) == phase = "live" /\ PixelAt(orig, 0) = <<L, L, L, 0>>

\* C2 as stated: a pixel r = g = b = L, a = 0 has alpha byte L after one
\* luminance call and alpha byte L after a second one.
C2_FixedPoint ==
    \A L \in Byte :
        GrayLevel(L) =>
            /\ trace = <<"luminance">> => surface.data[3] = L
            /\ trace = <<"luminance", "luminance">> => surface.data[3] = L

\* C2 amended: the first call gives alpha byte L with r = g = b = 0, and so
\* the second call gives the pixel 0x00000000 (alpha byte 0, which is L only
\* for L = 0).
C2_SecondPassZero ==
    \A L \in Byte :
        GrayLevel(L) =>
            /\ trace = <<"luminance">> => PixelAt(surface.data, 0) = <<0, 0, 0, L>>
            /\ trace = <<"luminance", "luminance">> =>
                  PixelAt(surface.data, 0) = <<0, 0, 0, 0>>

C2_Witness ==
    /\ GrayLevel(200)
    /\ trace = <<"luminance", "luminance">>
    /\ PixelAt(pre, 0) = <<0, 0, 0, 200>>
    /\ surface.data[3] = 0

\* C3: a bounding box with w <= 0 or h <= 0 yields a live canvas with a 1x1
\* surface, logical rect (0, 0, 1, 1) and the identity translation, whatever
\* x and y are.
C3_DegenerateBox ==
    (op.name = "create" /\ (op.w <= 0 \/ op.h <= 0)) =>
        /\ phase = "live"
        /\ surface.width = 1
        /\ surface.height = 1
        /\ DOMAIN surface.data = 0..3
        /\ rect = [x |-> 0, y |-> 0, w |-> 1, h |-> 1]
        /\ translation = Identity

C3_Witness ==
    /\ op.name = "create"
    /\ op.x = MaxK
    /\ op.y = -Q
    /\ op.w < 0
    /\ op.h > 0
    /\ surface.width = 1
    /\ rect.x = 0

\* C4: a bounding box with w > 0 and h > 0 yields the logical rect
\* (floor x, floor y, ceil(x+w) - floor x, ceil(y+h) - floor y) and the
\* translation (-floor x, -floor y); the rect contains the real box
\* [x, x+w] x [y, y+h] and is at least 1 wide and 1 high.
C4_CoversBox ==
    (op.name = "create" /\ op.w > 0 /\ op.h > 0) =>
        /\ rect = [x |-> Floor(op.x), y |-> Floor(op.y),
                   w |-> Ceil(op.x + op.w) - Floor(op.x),
                   h |-> Ceil(op.y + op.h) - Floor(op.y)]
        /\ translation = Matrix(1, 0, 0, 1, -Floor(op.x), -Floor(op.y))
        /\ rect.x * Q <= op.x
        /\ rect.y * Q <= op.y
        /\ (rect.x + rect.w) * Q >= op.x + op.w
        /\ (rect.y + rect.h) * Q >= op.y + op.h
        /\ rect.w >= 1
        /\ rect.h >= 1

\* the transformed clip rectangle, in the coordinates of the logical rect
ClipBox == MapRect(op.transform, op.clip)

\* twice the centre of surface pixel p, in the coordinates of the logical rect
Centre2(p) == <<2 * (p[1] + rect.x) + 1, 2 * (p[2] + rect.y) + 1>>

StrictlyInside(p) ==
    /\ 2 * ClipBox.x < Centre2(p)[1]
    /\ Centre2(p)[1] < 2 * (ClipBox.x + ClipBox.w)
    /\ 2 * ClipBox.y < Centre2(p)[2]
    /\ Centre2(p)[2] < 2 * (ClipBox.y + ClipBox.h)

StrictlyOutside(p) ==
    \/ Centre2(p)[1] < 2 * ClipBox.x
    \/ Centre2(p)[1] > 2 * (ClipBox.x + ClipBox.w)
    \/ Centre2(p)[2] < 2 * ClipBox.y
    \/ Centre2(p)[2] > 2 * (ClipBox.y + ClipBox.h)

PixelNow(p) == PixelAt(surface.data, PixelOffset(surface, p[1], p[2]))

PixelBefore(p) == PixelAt(pre, PixelOffset(surface, p[1], p[2]))

\* C5: mask leaves every pixel strictly inside the transformed clip
\* rectangle bit-for-bit unchanged and sets every pixel strictly outside
\* it to 0x00000000.
C5_MaskClips ==
    op.name = "mask" =>
        \A p \in Pixels(surface) :
            /\ StrictlyInside(p) => PixelNow(p) = PixelBefore(p)
            /\ StrictlyOutside(p) => PixelNow(p) = <<0, 0, 0, 0>>

\* a mask under a scaling transform that kept one coloured pixel and cleared another
C5_Witness ==
    /\ op.name = "mask"
    /\ op.transform.m00 = 2
    /\ rect.x # 0
    /\ \E p \in Pixels(surface) :
          StrictlyInside(p) /\ PixelBefore(p) # <<0, 0, 0, 0>> /\ PixelNow(p) = PixelBefore(p)
    /\ \E p \in Pixels(surface) :
          StrictlyOutside(p) /\ PixelBefore(p) # <<0, 0, 0, 0>> /\ PixelNow(p) = <<0, 0, 0, 0>>

\* the target of coverage cell c of the last text call
TargetX(c) == Round(op.x) + c[2]

TargetY(c) == Round(op.y) - 12 + c[1]

\* cells with non-zero coverage whose target is inside the surface
Landing ==
    {c \in DOMAIN op.tc.cells :
        /\ op.tc.cells[c] # 0
        /\ TargetX(c) \in 0..(surface.width - 1)
        /\ TargetY(c) \in 0..(surface.height - 1)}

TargetBytes(c) ==
    PixelOffset(surface, TargetX(c), TargetY(c))..(PixelOffset(surface, TargetX(c), TargetY(c)) + 3)

Blitted == op.name = "text" /\ ~op.failed

\* C6: in the blit of text, a cell with coverage c # 0 whose target is
\* inside the surface overwrites that pixel with r = g = b = 255 - c and
\* alpha 255; a cell with c = 0 or a target outside changes no byte.
C6_BlitOverwrites ==
    Blitted =>
        /\ \A c \in Landing :
              PixelNow(<<TargetX(c), TargetY(c)>>) =
                  <<255 - op.tc.cells[c], 255 - op.tc.cells[c], 255 - op.tc.cells[c], 255>>
        /\ \A off \in DOMAIN surface.data :
              (\A c \in Landing : off \notin TargetBytes(c)) => surface.data[off] = pre[off]

\* C7: when font loading, size selection or glyph loading fails, text
\* returns to its caller (the process goes on) and the surface bytes are
\* those before the call.
C7_RecoverableError ==
    (op.name = "text" /\ op.failed) => (phase = "live" /\ surface.data = pre)

\* C8: the translation is the pure translation by (-rect.x, -rect.y), the
\* surface is rect.w wide and rect.h high, and no operation changes the
\* rect, the translation or the size of the surface.
C8_Geometry ==
    phase # "new" =>
        /\ translation = Matrix(1, 0, 0, 1, -rect.x, -rect.y)
        /\ surface.width = rect.w
        /\ surface.height = rect.h

C8_Fixed ==
    phase # "new" =>
        /\ rect' = rect
        /\ translation' = translation
        /\ surface'.width = surface.width
        /\ surface'.height = surface.height
        /\ surface'.stride = surface.stride

C8_TranslationInvariant == [](C8_Geometry) /\ [][C8_Fixed]_vars

C8_Witness ==
    /\ rect.x = -1
    /\ translation.m02 = 1
    /\ surface.width = 2
    /\ trace = <<"fill", "mask", "text">>

Setters == {"setColor", "setLinearGradient", "setRadialGradient", "setTexture"}

\* C9 as stated: fill and stroke draw with the source of the most recent
\* set* call, whatever was called in between; the set* calls change no pixel.
C9_LastSetterWins ==
    /\ (op.name \in {"fill", "stroke"} /\ configured.type # "none") => op.used = configured
    /\ op.name \in Setters => surface.data = pre

\* the calls before the last one that install a paint source
Installers == {i \in 1..(Len(trace) - 1) : trace[i] \in Setters \cup {"mask", "blend"}}

LastInstaller == trace[CHOOSE i \in Installers : \A j \in Installers : j <= i]

\* C9 amended: fill and stroke draw with the source installed by the most
\* recent preceding set*, mask or blend call: the configured source after a
\* set*, transparent black after mask, the blend source's surface as a plain
\* texture after blend; luminance, text, fill and stroke install none, and
\* the set* calls change no pixel.
C9_LastInstallerWins ==
    /\ (op.name \in {"fill", "stroke"} /\ Installers # {}) =>
          IF LastInstaller = "mask" THEN op.used = SolidPaint(0, 0, 0, 0)
          ELSE IF LastInstaller = "blend"
               THEN /\ op.used.type = "texture"
                    /\ op.used.textype = "plain"
                    /\ op.used.surface = SourceCanvas(0, 0).surface
               ELSE op.used = configured
    /\ op.name \in Setters => surface.data = pre

\* a fill after setColor and luminance draws red; a pixel has become red
C9_Witness ==
    /\ trace = <<"setColor", "luminance", "fill">>
    /\ op.used = SolidPaint(255, 0, 0, 255)
    /\ configured = op.used
    /\ \E p \in Pixels(surface) : PixelNow(p) = <<0, 0, 255, 255>> /\ PixelBefore(p) # PixelNow(p)

\* C10: each 4-byte write of the blit lands at byte offset
\* cy * stride + 4 * cx of the surface data, the pixel (cx, cy) of
\* luminance and the accessors, on every canvas with stride >= 4 * width.
C10_BlitAddress ==
    Blitted => op.writes = UNION {TargetBytes(c) : c \in Landing}

====
